---- MODULE Spec2Model ----
(***************************************************************************)
(* Verification model of the trading-dashboard backend:                    *)
(*   - best_trades/scoring.py      TradeScorer (composite score)           *)
(*   - best_trades/service.py      trade levels, analyze_symbol, scan      *)
(*   - scanner/scanner.py, market_scanner/service.py    market scans       *)
(*   - admin/system_controller.py  master kill switch and its state file   *)
(*   - scheduler/*.py, trade_tracking/*.py   scheduled jobs                *)
(*                                                                         *)
(* Number representation.  Python floats are modelled as fixed-point       *)
(* integers: RSI values and component scores in hundredths (30.0 = 3000),  *)
(* values rounded by round(x, 1) in tenths, prices and ATR in cents,       *)
(* MACD values in hundredths, percentages (Bollinger position/bandwidth,   *)
(* trend strength/consistency, volume change) in whole percent.            *)
(* An optional value (Python None) is the empty sequence, a present value  *)
(* x is <<x>>.                                                             *)
(***************************************************************************)
EXTENDS Integers, Sequences, FiniteSets, TLC

VARIABLES
    score_call,     \* last call of TradeScorer.calculate_total_score: input and result
    scan_call,      \* last call of one of the three scan functions: input and result
    is_enabled,     \* SystemController.is_enabled of the running process
    state_file,     \* content of system_state.txt ("absent" when it does not exist)
    db,             \* row counts written by the scheduled jobs
    telegram_sent,  \* number of messages the scheduled jobs sent to Telegram
    last_op,        \* the operation that produced the current state
    trades,         \* the trades table of trade_tracking/tracker.py
    market,         \* current market price of the traded symbol
    clock,          \* hours since the first trade could be saved
    result_sent,    \* per trade, the trade-result notifications sent to Telegram
    market_service, \* the methods of the object held by TradeTracker.market_service
    telegram_module,\* the names the import in _notify_telegram can resolve
    setups,         \* the trade_setups table of trade_tracking/tracker_worker.py
    telegram_api,   \* what the last check_active_trades found: settings present, API answering
    level_call,     \* last call of _calculate_trade_levels: input and result
    outcome_call,   \* last call of check_trade_outcome: input and result
    rl_api,         \* the API the market data service is being used for
    finnhub_calls,  \* RateLimitManager.finnhub_calls, as seconds since each call
    oanda_calls,    \* RateLimitManager.oanda_calls, as seconds since each call
    finnhub_admitted, \* the calls wait_finnhub let through in the last finnhub_window
    oanda_admitted, \* the calls wait_oanda let through in the last oanda_window
    rl_pc           \* per coroutine, where it is in wait_finnhub / wait_oanda

scoreVars == <<score_call>>
scanVars == <<scan_call>>
sysVars == <<is_enabled, state_file, db, telegram_sent, last_op>>
trackVars == <<trades, market, clock, result_sent>>
wireVars == <<market_service, telegram_module, setups, telegram_api>>
callVars == <<level_call, outcome_call>>
rateVars == <<rl_api, finnhub_calls, oanda_calls, finnhub_admitted, oanda_admitted, rl_pc>>
vars == <<score_call, scan_call, is_enabled, state_file, db, telegram_sent,
          last_op, trades, market, clock, result_sent, market_service,
          telegram_module, setups, telegram_api, level_call, outcome_call, rl_api, finnhub_calls,
          oanda_calls, finnhub_admitted, oanda_admitted, rl_pc>>

None == <<>>
Some(x) == <<x>>

Min(a, b) == IF a < b THEN a ELSE b
Max(a, b) == IF a > b THEN a ELSE b
Abs(a) == IF a < 0 THEN 0 - a ELSE a

\* round(n / d) to the nearest integer, ties to even (Python round), d > 0
RoundDiv(n, d) ==
    LET a == Abs(n)
        q == a \div d
        r == a % d
        m == IF 2 * r > d THEN q + 1
             ELSE IF 2 * r < d THEN q
             ELSE IF q % 2 = 0 THEN q ELSE q + 1
    IN IF n < 0 THEN 0 - m ELSE m

\* round(x, 1) of a value held in hundredths; the result is in tenths
Round1(x) == RoundDiv(x, 10)

(***************************************************************************)
(* best_trades/scoring.py                                                  *)
(***************************************************************************)

score_rsi(rsi) ==
    IF rsi = None THEN [score |-> 0, signal |-> "neutral"]
    ELSE IF rsi[1] < 3000
         THEN [score |-> Min((3000 - rsi[1]) * 2, 3000), signal |-> "bullish"]
    ELSE IF rsi[1] > 7000
         THEN [score |-> Min((rsi[1] - 7000) * 2, 3000), signal |-> "bearish"]
    ELSE [score |-> 0, signal |-> "neutral"]

score_macd(macd_data) ==
    IF macd_data = None THEN [score |-> 0, signal |-> "neutral"]
    ELSE LET m == macd_data[1]
             bull == m.histogram > 0 /\ m.macd > m.signal
             bear == ~bull /\ m.histogram < 0 /\ m.macd < m.signal
             cross == IF bull \/ bear THEN 2000 ELSE 0
             strong == IF Abs(m.histogram) > 10 THEN 1000 ELSE 0
         IN [score |-> Min(cross + strong, 3000),
             signal |-> IF bull THEN "bullish" ELSE IF bear THEN "bearish" ELSE "neutral"]

score_bollinger(bb_data, current_price) ==
    IF bb_data = None THEN [score |-> 0, signal |-> "neutral"]
    ELSE LET b == bb_data[1]
             low == b.position < 10
             high == ~low /\ b.position > 90
             touch == IF low \/ high THEN 2500 ELSE 0
             squeeze == IF b.bandwidth < 5 THEN 1000 ELSE 0
         IN [score |-> Min(touch + squeeze, 2500),
             signal |-> IF low THEN "bullish" ELSE IF high THEN "bearish" ELSE "neutral"]

score_trend(trend_data) ==
    IF trend_data = None THEN [score |-> 0, signal |-> "neutral"]
    ELSE LET t == trend_data[1]
         IN IF t.direction = "neutral" THEN [score |-> 0, signal |-> "neutral"]
            ELSE [score |-> Min(t.strength * 30 + t.consistency * 20, 2000),
                  signal |-> IF t.direction = "uptrend" THEN "bullish" ELSE "bearish"]

score_volume(volume_data) ==
    IF volume_data = None THEN [score |-> 0, signal |-> "neutral"]
    ELSE LET v == volume_data[1]
             high == IF v.current_vs_avg > 50 THEN 1500
                     ELSE IF v.current_vs_avg > 20 THEN 1000 ELSE 0
             inc == IF v.trend = "increasing" THEN 500 ELSE 0
         IN [score |-> Min(high + inc, 1500), signal |-> "confirmation"]

\* abs((current_price - level) / current_price * 100) < 2, current_price > 0
Within2Pct(current_price, level) == Abs(current_price - level) * 100 < 2 * current_price

score_support_resistance(sr_data, current_price) ==
    IF sr_data = None THEN [score |-> 0, signal |-> "neutral"]
    ELSE LET s == sr_data[1]
             nearS == \E i \in DOMAIN s.support_levels :
                          Within2Pct(current_price, s.support_levels[i])
             nearR == \E i \in DOMAIN s.resistance_levels :
                          Within2Pct(current_price, s.resistance_levels[i])
             sc == (IF nearS THEN 2000 ELSE 0) + (IF nearR THEN 2000 ELSE 0)
         IN [score |-> Min(sc, 2000),
             signal |-> IF nearR THEN "bearish" ELSE IF nearS THEN "bullish" ELSE "neutral"]

\* insertion order of the components dict
ComponentNames == <<"rsi", "macd", "bollinger", "trend", "volume", "support_resistance">>

\* str.upper() on the component names
Upper(name) ==
    CASE name = "rsi" -> "RSI"
      [] name = "macd" -> "MACD"
      [] name = "bollinger" -> "BOLLINGER"
      [] name = "trend" -> "TREND"
      [] name = "volume" -> "VOLUME"
      [] name = "support_resistance" -> "SUPPORT_RESISTANCE"

\* str.lower() on the direction
Lower(direction) ==
    CASE direction = "LONG" -> "long"
      [] direction = "SHORT" -> "short"
      [] direction = "NEUTRAL" -> "neutral"

score_components(indicators) ==
    [rsi |-> score_rsi(indicators.rsi),
     macd |-> score_macd(indicators.macd),
     bollinger |-> score_bollinger(indicators.bollinger_bands, indicators.current_price),
     trend |-> score_trend(indicators.trend),
     volume |-> score_volume(indicators.volume_profile),
     support_resistance |-> score_support_resistance(indicators.support_resistance,
                                                     indicators.current_price)]

RECURSIVE SumScores(_, _, _)
\* sum(comp['score'] for comp in components.values() if sel(comp)), names[i..]
SumScores(components, sigs, i) ==
    IF i > Len(ComponentNames) THEN 0
    ELSE (IF components[ComponentNames[i]].signal \in sigs
          THEN components[ComponentNames[i]].score ELSE 0)
         + SumScores(components, sigs, i + 1)

AllSignals == {"bullish", "bearish", "neutral", "confirmation"}

RECURSIVE Collect(_, _, _, _)
\* the loop over components.items() filling confluences (which = "c") and warnings ("w")
Collect(components, direction, which, i) ==
    IF i > Len(ComponentNames) THEN <<>>
    ELSE LET comp == components[ComponentNames[i]]
             isConf == comp.signal = Lower(direction) /\ comp.score > 0
             isWarn == ~isConf /\ comp.signal # "neutral"
                       /\ comp.signal # Lower(direction) /\ comp.score > 0
             hit == IF which = "c" THEN isConf ELSE isWarn
         IN (IF hit THEN <<Upper(ComponentNames[i])>> ELSE <<>>)
            \o Collect(components, direction, which, i + 1)

\* DirectionOf without the comparison of the two sides
DirectionOf_NoComparison(bullish_score, bearish_score) ==
    IF bullish_score > 3000 THEN "LONG"
    ELSE IF bearish_score > 3000 THEN "SHORT"
    ELSE "NEUTRAL"

DirectionOf(bullish_score, bearish_score) ==
    IF bullish_score > bearish_score /\ bullish_score > 3000 THEN "LONG"
    ELSE IF bearish_score > bullish_score /\ bearish_score > 3000 THEN "SHORT"
    ELSE "NEUTRAL"

\* ConfidenceOf taking the share of the losing side
ConfidenceOf_LosingSide(direction, bullish_score, bearish_score) ==
    IF direction = "LONG"
    THEN Min(RoundDiv(bearish_score * 1000, bullish_score + bearish_score), 1000)
    ELSE IF direction = "SHORT"
    THEN Min(RoundDiv(bullish_score * 1000, bullish_score + bearish_score), 1000)
    ELSE 0

\* confidence, in tenths of a percent after round(confidence, 1)
ConfidenceOf(direction, bullish_score, bearish_score) ==
    IF direction = "LONG"
    THEN Min(RoundDiv(bullish_score * 1000, bullish_score + bearish_score), 1000)
    ELSE IF direction = "SHORT"
    THEN Min(RoundDiv(bearish_score * 1000, bullish_score + bearish_score), 1000)
    ELSE 0

calculate_total_score(indicators) ==
    LET components == score_components(indicators)
        total == SumScores(components, AllSignals, 1)
        bullish_score == SumScores(components, {"bullish"}, 1)
        bearish_score == SumScores(components, {"bearish"}, 1)
        direction == DirectionOf(bullish_score, bearish_score)
        confluences == Collect(components, direction, "c", 1)
    IN [total_score |-> Round1(total),
        direction |-> direction,
        confidence |-> ConfidenceOf(direction, bullish_score, bearish_score),
        components |-> components,
        confluences |-> confluences,
        warnings |-> Collect(components, direction, "w", 1),
        num_confluences |-> Len(confluences)]

(***************************************************************************)
(* best_trades/service.py                                                  *)
(***************************************************************************)

\* Prices are computed at 1000 times the cent and rounded to the cent by round(x, 2).
PriceScale == 1000

calculate_trade_levels(indicators, direction) ==
    LET current_price == indicators.current_price
        cpN == current_price * PriceScale
        \* indicators.get('atr', current_price * 0.02)
        atrN == IF indicators.atr = None THEN current_price * 20
                ELSE indicators.atr[1] * PriceScale
        support_levels == IF indicators.support_resistance = None THEN <<>>
                          ELSE indicators.support_resistance[1].support_levels
        resistance_levels == IF indicators.support_resistance = None THEN <<>>
                             ELSE indicators.support_resistance[1].resistance_levels
        trend_strength == IF indicators.trend = None THEN 50
                          ELSE indicators.trend[1].strength
        \* trend_multiplier times 100
        tm100 == 100 + Max(trend_strength - 50, 0)
        entryN == cpN
        stopN == IF direction = "LONG"
                 THEN (IF Len(support_levels) > 0
                       THEN support_levels[1] * PriceScale - atrN \div 2
                       ELSE cpN - atrN * 2)
                 ELSE (IF Len(resistance_levels) > 0
                       THEN resistance_levels[1] * PriceScale + atrN \div 2
                       ELSE cpN + atrN * 2)
        t1N == IF direction = "LONG"
               THEN (IF Len(resistance_levels) >= 1
                     THEN resistance_levels[1] * PriceScale
                     ELSE cpN + (atrN * 4 * tm100) \div 100)
               ELSE (IF Len(support_levels) >= 1
                     THEN support_levels[1] * PriceScale
                     ELSE cpN - (atrN * 4 * tm100) \div 100)
        t2N == IF direction = "LONG"
               THEN (IF Len(resistance_levels) >= 2
                     THEN resistance_levels[2] * PriceScale
                     ELSE IF Len(resistance_levels) = 1
                     THEN entryN + (resistance_levels[1] - current_price) * 1618
                     ELSE cpN + (atrN * 7 * tm100) \div 100)
               ELSE (IF Len(support_levels) >= 2
                     THEN support_levels[2] * PriceScale
                     ELSE IF Len(support_levels) = 1
                     THEN entryN - (current_price - support_levels[1]) * 1618
                     ELSE cpN - (atrN * 7 * tm100) \div 100)
        risk == Abs(entryN - stopN)
        reward_1 == Abs(t1N - entryN)
        reward_2 == Abs(t2N - entryN)
    IN IF direction \notin {"LONG", "SHORT"}
       THEN [entry |-> Some(current_price),
             stop_loss |-> None,
             target_1 |-> None,
             target_2 |-> None,
             risk_reward_ratio |-> None,
             risk_percent |-> None]
       ELSE [entry |-> Some(RoundDiv(entryN, PriceScale)),
             stop_loss |-> Some(RoundDiv(stopN, PriceScale)),
             target_1 |-> Some(RoundDiv(t1N, PriceScale)),
             target_2 |-> Some(RoundDiv(t2N, PriceScale)),
             risk_reward_ratio_t1 |-> Some(IF risk > 0 THEN RoundDiv(reward_1 * 100, risk) ELSE 0),
             risk_reward_ratio_t2 |-> Some(IF risk > 0 THEN RoundDiv(reward_2 * 100, risk) ELSE 0),
             risk_percent |-> Some(RoundDiv(risk * 10, current_price)),
             atr |-> Some(RoundDiv(atrN, PriceScale))]

\* analyze_symbol: fetched is None when there are no candles, fewer than 50, or
\* calculate_all failed; otherwise the indicator bundle calculate_all produced.
\* The result is None or the analysis (ai_insights and the recommendation text
\* are derived from the fields below and are not carried).
analyze_symbol(symbol, fetched) ==
    IF fetched = None THEN None
    ELSE LET indicators == fetched[1]
             score_data == calculate_total_score(indicators)
         IN Some([symbol |-> symbol,
                  score |-> score_data.total_score,
                  direction |-> score_data.direction,
                  confidence |-> score_data.confidence,
                  current_price |-> indicators.current_price,
                  confluences |-> score_data.confluences,
                  warnings |-> score_data.warnings,
                  trade_levels |-> calculate_trade_levels(indicators, score_data.direction)])

RECURSIVE InsertDesc(_, _, _)
\* insert index x into the index list sorted by descending keys, after every
\* index whose key is >= keys[x]: one step of a stable descending sort
\* (list.sort(key=..., reverse=True) keeps elements with equal keys in order)
InsertDesc(sorted, x, keys) ==
    IF sorted = <<>> THEN <<x>>
    ELSE IF keys[Head(sorted)] >= keys[x]
         THEN <<Head(sorted)>> \o InsertDesc(Tail(sorted), x, keys)
         ELSE <<x>> \o sorted

RECURSIVE SortIdxDesc(_, _)
\* the indices 1..n of keys ordered as list.sort(reverse=True) orders the elements
SortIdxDesc(keys, n) ==
    IF n = 0 THEN <<>>
    ELSE InsertDesc(SortIdxDesc(keys, n - 1), n, keys)

\* SortDesc leaving the list in the order it was built
SortDesc_Unsorted(list, keys) == list

\* list.sort(key=..., reverse=True) where keys[i] is the key of list[i]
SortDesc(list, keys) ==
    LET perm == SortIdxDesc(keys, Len(list))
    IN [i \in DOMAIN list |-> list[perm[i]]]

\* scan_for_best_trades over the per-symbol fetch results (feed[i] for symbol i);
\* min_score is in tenths like the scores
scan_for_best_trades(feed, min_score) ==
    LET analysed == [i \in DOMAIN feed |-> analyze_symbol(i, feed[i])]
        Keep(a) == a # None /\ a[1].score >= min_score
        kept == SelectSeq(analysed, Keep)
        results == [i \in DOMAIN kept |-> kept[i][1]]
    IN SortDesc(results, [i \in DOMAIN results |-> results[i].score])

(***************************************************************************)
(* scanner/scanner.py and market_scanner/service.py                        *)
(***************************************************************************)

\* dict.get(key, 0) on an AI analysis whose key may be absent
GetOr0(opt) == IF opt = None THEN 0 ELSE opt[1]

\* TradingScanner.scan_market.  feed[i] is None when the (pair, timeframe) gave
\* insufficient data, no analysis or an exception before the filter; otherwise
\* the AI analysis, with strength = None when calculate_strength raised.
trading_scanner_scan_market(feed, min_confidence, max_results) ==
    LET Keep(a) == a # None /\ a[1].valid /\ GetOr0(a[1].confidence) >= min_confidence
        kept == SelectSeq(feed, Keep)
        all_setups == [i \in DOMAIN kept |->
                         [id |-> kept[i][1].id,
                          valid |-> kept[i][1].valid,
                          confidence |-> kept[i][1].confidence,
                          market_strength |-> IF kept[i][1].strength = None THEN 50
                                              ELSE kept[i][1].strength[1]]]
        sorted == SortDesc(all_setups,
                           [i \in DOMAIN all_setups |-> GetOr0(all_setups[i].confidence)])
    IN SubSeq(sorted, 1, Min(max_results, Len(sorted)))

\* MarketScannerService.scan_market.  feed[i] is None when the symbol's fetch,
\* formatting or AI analysis gave nothing; otherwise the AI analysis.
market_scanner_scan_market(available, feed, min_score) ==
    IF ~available THEN <<>>
    ELSE LET Keep(a) == a # None /\ a[1].valid /\ GetOr0(a[1].score) >= min_score
             kept == SelectSeq(feed, Keep)
             results == [i \in DOMAIN kept |-> kept[i][1]]
         IN SortDesc(results, [i \in DOMAIN results |-> GetOr0(results[i].score)])

(***************************************************************************)
(* Input domains                                                           *)
(***************************************************************************)

MaxSymbols == 3

Prices == {10000}

RsiValues == {None, Some(1000), Some(2999), Some(5000), Some(7001), Some(9000)}

MacdValues ==
    {None,
     Some([macd |-> 30, signal |-> 10, histogram |-> 20]),
     Some([macd |-> 15, signal |-> 10, histogram |-> 5]),
     Some([macd |-> -30, signal |-> -10, histogram |-> -20]),
     Some([macd |-> 0, signal |-> 0, histogram |-> 0])}

BollingerValues ==
    {None,
     Some([position |-> 5, bandwidth |-> 8]),
     Some([position |-> 95, bandwidth |-> 8]),
     Some([position |-> 50, bandwidth |-> 3]),
     Some([position |-> 50, bandwidth |-> 8])}

TrendValues ==
    {None,
     Some([direction |-> "neutral", strength |-> 2, consistency |-> 40]),
     Some([direction |-> "uptrend", strength |-> 100, consistency |-> 100]),
     Some([direction |-> "uptrend", strength |-> 10, consistency |-> 10]),
     Some([direction |-> "downtrend", strength |-> 10, consistency |-> 10]),
     Some([direction |-> "downtrend", strength |-> 100, consistency |-> 100])}

VolumeValues ==
    {None,
     Some([current_vs_avg |-> 0, trend |-> "stable"]),
     Some([current_vs_avg |-> 30, trend |-> "stable"]),
     Some([current_vs_avg |-> 60, trend |-> "increasing"])}

\* supports lie below the price in descending order, resistances above it in
\* ascending order (TechnicalIndicators.support_resistance)
SupportResistanceValues ==
    {None,
     Some([support_levels |-> <<>>, resistance_levels |-> <<>>]),
     Some([support_levels |-> <<9900>>, resistance_levels |-> <<11000>>]),
     Some([support_levels |-> <<9000>>, resistance_levels |-> <<10100, 11000>>]),
     Some([support_levels |-> <<9900, 9000>>, resistance_levels |-> <<10100>>])}

AtrValues == {Some(100), Some(250)}

Bundles ==
    [current_price : Prices,
     rsi : RsiValues,
     macd : MacdValues,
     bollinger_bands : BollingerValues,
     trend : TrendValues,
     volume_profile : VolumeValues,
     support_resistance : SupportResistanceValues,
     atr : AtrValues]

Bundle(rsi, macd, bb, trend, vol, sr) ==
    [current_price |-> 10000, rsi |-> Some(rsi), macd |-> Some(macd),
     bollinger_bands |-> Some(bb), trend |-> Some(trend),
     volume_profile |-> Some(vol), support_resistance |-> Some(sr), atr |-> Some(100)]

MacdBull == [macd |-> 30, signal |-> 10, histogram |-> 20]
MacdBear == [macd |-> -30, signal |-> -10, histogram |-> -20]
MacdFlat == [macd |-> 0, signal |-> 0, histogram |-> 0]
BbLow == [position |-> 5, bandwidth |-> 8]
BbHigh == [position |-> 95, bandwidth |-> 8]
BbMid == [position |-> 50, bandwidth |-> 8]
TrendFlat == [direction |-> "neutral", strength |-> 2, consistency |-> 40]
TrendUp == [direction |-> "uptrend", strength |-> 100, consistency |-> 100]
VolQuiet == [current_vs_avg |-> 0, trend |-> "stable"]
VolHigh == [current_vs_avg |-> 60, trend |-> "increasing"]
SrEmpty == [support_levels |-> <<>>, resistance_levels |-> <<>>]
SrSupport == [support_levels |-> <<9900>>, resistance_levels |-> <<11000>>]
SrResistance == [support_levels |-> <<9000>>, resistance_levels |-> <<10100, 11000>>]

\* bundles as calculate_all produces them from at least 50 candles (every entry present)
ScanBundles ==
    {Bundle(1000, MacdBull, BbLow, TrendUp, VolHigh, SrSupport),
     Bundle(9000, MacdBear, BbHigh, TrendFlat, VolQuiet, SrResistance),
     Bundle(1000, MacdBear, BbMid, TrendFlat, VolHigh, SrEmpty),
     Bundle(5000, MacdFlat, BbMid, TrendFlat, VolQuiet, SrEmpty),
     Bundle(1000, MacdFlat, BbLow, TrendFlat, VolQuiet, SrEmpty)}

SeqsUpTo(S, n) == UNION {[1..k -> S] : k \in 1..n}

BestTradesFeeds == SeqsUpTo({None} \cup {Some(b) : b \in ScanBundles}, MaxSymbols)
MinScores == {500, 600}

TradingScannerItems ==
    {None,
     Some([id |-> 1, valid |-> TRUE, confidence |-> Some(80), strength |-> Some(70)]),
     Some([id |-> 2, valid |-> TRUE, confidence |-> Some(60), strength |-> None]),
     Some([id |-> 3, valid |-> TRUE, confidence |-> Some(50), strength |-> Some(40)]),
     Some([id |-> 4, valid |-> FALSE, confidence |-> Some(90), strength |-> Some(70)]),
     Some([id |-> 5, valid |-> TRUE, confidence |-> None, strength |-> Some(70)]),
     Some([id |-> 6, valid |-> TRUE, confidence |-> Some(95), strength |-> Some(60)])}
TradingScannerFeeds == SeqsUpTo(TradingScannerItems, MaxSymbols)
MinConfidences == {60}
MaxResultsValues == 1..2

MarketScannerItems ==
    {None,
     Some([symbol |-> 1, valid |-> TRUE, score |-> Some(9)]),
     Some([symbol |-> 2, valid |-> TRUE, score |-> Some(7)]),
     Some([symbol |-> 3, valid |-> TRUE, score |-> Some(6)]),
     Some([symbol |-> 4, valid |-> FALSE, score |-> Some(9)]),
     Some([symbol |-> 5, valid |-> TRUE, score |-> None])}
MarketScannerFeeds == SeqsUpTo(MarketScannerItems, MaxSymbols)
MarketMinScores == {7}

(***************************************************************************)
(* Specification of the scorer: calculate_total_score on any bundle        *)
(***************************************************************************)

\* score_call holds the bundle passed to the call and, once it has run, its result
CalculateTotalScore ==
    /\ score_call # None
    /\ score_call.result = None
    /\ score_call' = [score_call EXCEPT
                         !.result = Some(calculate_total_score(score_call.indicators))]
    /\ UNCHANGED <<wireVars, callVars, rateVars, scanVars, sysVars, trackVars>>

(***************************************************************************)
(* Specification of the trade-level calculator                             *)
(***************************************************************************)

SrTwoSupports == [support_levels |-> <<9900, 9500>>, resistance_levels |-> <<10100>>]

\* the entries of a bundle _calculate_trade_levels reads.  atr is 0 when the
\* last 14 candles are flat; the support levels lie below the price in
\* descending order and the resistance levels above it in ascending order
LevelBundles ==
    [current_price : Prices,
     atr : {None, Some(0), Some(100)},
     support_resistance : {None, Some(SrEmpty), Some(SrSupport), Some(SrResistance),
                           Some(SrTwoSupports)},
     trend : {None, Some(TrendFlat), Some(TrendUp)}]

\* level_call holds the arguments of the call and, once it has run, its result
CalculateTradeLevels ==
    /\ level_call # None
    /\ level_call.result = None
    /\ level_call' = [level_call EXCEPT
                         !.result = Some(calculate_trade_levels(level_call.indicators,
                                                                level_call.direction))]
    /\ UNCHANGED <<outcome_call, scoreVars, scanVars, sysVars, trackVars, wireVars,
                   rateVars>>

(***************************************************************************)
(* Specification of the scans                                              *)
(***************************************************************************)

ScanCalls ==
    [fn : {"scan_for_best_trades"}, feed : BestTradesFeeds, threshold : MinScores,
     max_results : {0}, available : {TRUE}, result : {None}]
    \cup
    [fn : {"TradingScanner.scan_market"}, feed : TradingScannerFeeds,
     threshold : MinConfidences, max_results : MaxResultsValues, available : {TRUE},
     result : {None}]
    \cup
    [fn : {"MarketScannerService.scan_market"}, feed : MarketScannerFeeds,
     threshold : MarketMinScores, max_results : {0}, available : BOOLEAN,
     result : {None}]

ScanStep(fn, result) ==
    /\ scan_call # None
    /\ scan_call.fn = fn
    /\ scan_call.result = None
    /\ scan_call' = [scan_call EXCEPT !.result = Some(result)]
    /\ UNCHANGED <<wireVars, callVars, rateVars, scoreVars, sysVars, trackVars>>

ScanForBestTrades ==
    ScanStep("scan_for_best_trades",
             scan_for_best_trades(scan_call.feed, scan_call.threshold))

TradingScannerScanMarket ==
    ScanStep("TradingScanner.scan_market",
             trading_scanner_scan_market(scan_call.feed, scan_call.threshold,
                                         scan_call.max_results))

MarketScannerScanMarket ==
    ScanStep("MarketScannerService.scan_market",
             market_scanner_scan_market(scan_call.available, scan_call.feed,
                                        scan_call.threshold))

(***************************************************************************)
(* admin/system_controller.py and routes/admin.py                          *)
(*                                                                         *)
(* state_file is "absent", "ON" or "OFF".  read_ok / write_ok say whether  *)
(* the file operation inside the try block succeeded; when it raises, the  *)
(* except branch only logs.                                                *)
(***************************************************************************)

\* SystemController._save_state
save_state(enabled, file, write_ok) ==
    IF write_ok THEN (IF enabled THEN "ON" ELSE "OFF") ELSE file

\* SystemController._load_state, as run by __init__
load_state(file, read_ok, write_ok) ==
    IF ~read_ok THEN [is_enabled |-> TRUE, file |-> file]
    ELSE IF file # "absent" THEN [is_enabled |-> (file = "ON"), file |-> file]
    ELSE [is_enabled |-> TRUE, file |-> save_state(TRUE, file, write_ok)]

\* SystemController.enable
enable(enabled, file, write_ok) ==
    IF ~enabled THEN [is_enabled |-> TRUE, file |-> save_state(TRUE, file, write_ok)]
    ELSE [is_enabled |-> enabled, file |-> file]

\* SystemController.disable
disable(enabled, file, write_ok) ==
    IF enabled THEN [is_enabled |-> FALSE, file |-> save_state(FALSE, file, write_ok)]
    ELSE [is_enabled |-> enabled, file |-> file]

\* SystemController.toggle
toggle(enabled, file, write_ok) ==
    IF enabled THEN disable(enabled, file, write_ok) ELSE enable(enabled, file, write_ok)

\* POST /api/admin/enable
EnableSystem ==
    /\ \E write_ok \in BOOLEAN :
          LET r == enable(is_enabled, state_file, write_ok)
          IN is_enabled' = r.is_enabled /\ state_file' = r.file
    /\ last_op' = "enable"
    /\ UNCHANGED <<wireVars, callVars, rateVars, db, telegram_sent, scoreVars, scanVars, trackVars>>

\* POST /api/admin/disable
DisableSystem ==
    /\ \E write_ok \in BOOLEAN :
          LET r == disable(is_enabled, state_file, write_ok)
          IN is_enabled' = r.is_enabled /\ state_file' = r.file
    /\ last_op' = "disable"
    /\ UNCHANGED <<wireVars, callVars, rateVars, db, telegram_sent, scoreVars, scanVars, trackVars>>

\* POST /api/admin/toggle
ToggleSystem ==
    /\ \E write_ok \in BOOLEAN :
          LET r == toggle(is_enabled, state_file, write_ok)
          IN is_enabled' = r.is_enabled /\ state_file' = r.file
    /\ last_op' = "toggle"
    /\ UNCHANGED <<wireVars, callVars, rateVars, db, telegram_sent, scoreVars, scanVars, trackVars>>

\* the process restarts: the module-level SystemController() is constructed again
Restart ==
    /\ \E read_ok \in BOOLEAN, write_ok \in BOOLEAN :
          LET r == load_state(state_file, read_ok, write_ok)
          IN is_enabled' = r.is_enabled /\ state_file' = r.file
    /\ last_op' = "restart"
    /\ UNCHANGED <<wireVars, callVars, rateVars, db, telegram_sent, scoreVars, scanVars, trackVars>>

(***************************************************************************)
(* scheduler/*.py and trade_tracking/tracker_worker.py: the scheduled jobs *)
(*                                                                         *)
(* db counts the rows: scan sessions created and completed, TradeSetup     *)
(* rows open and closed, news articles.  A job run is one action; what the *)
(* scan, the AI and Telegram answer is drawn from small sets.  The values  *)
(* read from settings (AUTO_SCAN_AI_PROVIDER, MIN_CONFIDENCE_SCORE) are    *)
(* deployment configuration and do not influence the row counts.           *)
(***************************************************************************)

MaxRows == 2
MaxMsgs == 3
MaxSetups == 2

WithinCaps(d, msgs) ==
    /\ d.scan_sessions <= MaxRows
    /\ d.open_setups <= MaxRows
    /\ d.closed_setups <= MaxRows
    /\ d.articles <= MaxRows
    /\ msgs <= MaxMsgs

\* AutoScanner.run_4h_scan (crypto): scan_ok is FALSE when scan_market raises,
\* n is the number of setups it returns, tg is telegram.is_available()
run_4h_scan_crypto(d, msgs, scan_ok, n, tg) ==
    LET created == [d EXCEPT !.scan_sessions = @ + 1]
    IN IF ~scan_ok THEN [db |-> created, telegram_sent |-> msgs]
       ELSE [db |-> [created EXCEPT !.open_setups = @ + n,
                                    !.completed_sessions = @ + 1],
             telegram_sent |-> IF n > 0 /\ tg THEN msgs + 1 + Min(n, 5) ELSE msgs]

\* AutoScannerCommodities.run_4h_scan: n of the symbols give a setup that passes
\* the confidence filter; each is saved at once
run_4h_scan_commodities(d, msgs, n, tg) ==
    [db |-> [d EXCEPT !.scan_sessions = @ + 1, !.open_setups = @ + n,
                      !.completed_sessions = @ + 1],
     telegram_sent |-> IF tg /\ n > 0 THEN msgs + 1 + n ELSE msgs]

\* AutoScannerIndices.run_4h_scan: returns at once when the system is disabled
run_4h_scan_indices(enabled, d, msgs, n, tg) ==
    IF ~enabled THEN [db |-> d, telegram_sent |-> msgs]
    ELSE [db |-> [d EXCEPT !.scan_sessions = @ + 1, !.open_setups = @ + n,
                           !.completed_sessions = @ + 1],
          telegram_sent |-> IF tg /\ n > 0 THEN msgs + 1 + n ELSE msgs]

\* AutoNewsScheduler.generate_and_post_article: generated is FALSE when no news
\* was fetched or the generator returned nothing; posted is the success of
\* send_article
generate_and_post_article(d, msgs, generated, tg, posted) ==
    IF ~generated THEN [db |-> d, telegram_sent |-> msgs]
    ELSE [db |-> [d EXCEPT !.articles = @ + 1],
          telegram_sent |-> IF tg /\ posted THEN msgs + 1 ELSE msgs]

\* TradeTrackerWorker.check_all_open_trades: k of the open setups have an
\* outcome (take-profit, stop-loss or expiry) and are closed
check_all_open_trades(enabled, d, msgs, k, tg) ==
    IF ~enabled THEN [db |-> d, telegram_sent |-> msgs]
    ELSE [db |-> [d EXCEPT !.open_setups = @ - k, !.closed_setups = @ + k],
          telegram_sent |-> IF tg THEN msgs + k ELSE msgs]

JobStep(name, r) ==
    /\ WithinCaps(r.db, r.telegram_sent)
    /\ db' = r.db
    /\ telegram_sent' = r.telegram_sent
    /\ last_op' = name
    /\ UNCHANGED <<wireVars, callVars, rateVars, is_enabled, state_file, scoreVars, scanVars, trackVars>>

AutoScanCrypto ==
    \E scan_ok \in BOOLEAN, n \in 0..MaxSetups, tg \in BOOLEAN :
        JobStep("auto_scan_crypto", run_4h_scan_crypto(db, telegram_sent, scan_ok, n, tg))

AutoScanCommodities ==
    \E n \in 0..MaxSetups, tg \in BOOLEAN :
        JobStep("auto_scan_commodities", run_4h_scan_commodities(db, telegram_sent, n, tg))

AutoScanIndices ==
    \E n \in 0..MaxSetups, tg \in BOOLEAN :
        JobStep("auto_scan_indices",
                run_4h_scan_indices(is_enabled, db, telegram_sent, n, tg))

AutoNews ==
    \E generated \in BOOLEAN, tg \in BOOLEAN, posted \in BOOLEAN :
        JobStep("auto_news",
                generate_and_post_article(db, telegram_sent, generated, tg, posted))

TrackerWorkerCheck ==
    \E k \in 0..db.open_setups, tg \in BOOLEAN :
        JobStep("tracker_worker_check",
                check_all_open_trades(is_enabled, db, telegram_sent, k, tg))

(***************************************************************************)
(* trade_tracking/tracker.py: TradeTracker                                 *)
(*                                                                         *)
(* Prices are whole currency units, times are whole hours.                 *)
(***************************************************************************)

\* the methods class UnifiedMarketDataService defines (market_data/unified_service.py)
UnifiedMarketDataServiceMethods ==
    {"_get_cache_key", "_get_from_cache", "_set_cache", "get_crypto_candles",
     "get_stock_candles", "get_forex_candles", "get_candles", "get_rate_limit_status"}

\* the names module telegram_bot/service.py defines
TelegramBotServiceNames == {"logger", "TelegramBotService", "telegram_bot"}

\* TradeTracker._get_current_price: self.market_service.get_ohlcv(...) inside a
\* try block whose except branch returns None; service is the set of methods
\* of self.market_service, fetched is the close of the candle the service
\* would return (None when it returns no candle)
get_current_price(service, fetched) ==
    IF "get_ohlcv" \in service THEN fetched ELSE None

\* TradeTracker._get_max_age_hours
get_max_age_hours(timeframe) ==
    CASE timeframe = "15m" -> 24
      [] timeframe = "1h" -> 72
      [] timeframe = "4h" -> 168
      [] timeframe = "1d" -> 720
      [] OTHER -> 72

\* TradeTracker._calculate_trade_results; percentages and ratios in hundredths
calculate_trade_results(trade) ==
    IF trade.exit_price = None \/ trade.exit_price = Some(0) THEN trade
    ELSE LET exit == trade.exit_price[1]
             pl == IF trade.direction = "LONG"
                   THEN RoundDiv((exit - trade.entry_price) * 10000, trade.entry_price)
                   ELSE RoundDiv((trade.entry_price - exit) * 10000, trade.entry_price)
             risk == IF trade.stop_loss = None THEN 0
                     ELSE Abs(trade.entry_price - trade.stop_loss[1])
             reward == Abs(exit - trade.entry_price)
         IN [trade EXCEPT
               !.profit_loss_percent = Some(pl),
               !.risk_reward_realized =
                   IF trade.stop_loss # None /\ trade.stop_loss # Some(0) /\ risk > 0
                   THEN Some(RoundDiv(reward * 100, risk)) ELSE @,
               !.duration_minutes =
                   IF trade.exit_time # None
                   THEN Some((trade.exit_time[1] - trade.entry_time) * 60) ELSE @]

\* TradeTracker._notify_telegram: the import of send_trade_result_notification
\* from telegram_bot.service is inside the try block; delivered is the result
\* of the send; module is the set of names the import can resolve.  Returns
\* the trade and the number of messages sent.
notify_telegram(module, trade, configured, delivered) ==
    IF "send_trade_result_notification" \notin module
    THEN [trade |-> trade, sent |-> 0]
    ELSE IF trade.notified_telegram THEN [trade |-> trade, sent |-> 0]
    ELSE [trade |-> [trade EXCEPT !.notified_telegram = TRUE],
          sent |-> IF configured /\ delivered THEN 1 ELSE 0]

\* Python truthiness of an optional price level: None and 0 are false
Truthy(level) == level # None /\ level # Some(0)

\* the status a price moves a trade to, "pending" when it hits nothing
HitStatus(trade, current_price) ==
    IF trade.direction = "LONG"
    THEN (IF Truthy(trade.stop_loss) /\ current_price <= trade.stop_loss[1] THEN "stopped"
          ELSE IF Truthy(trade.target_2) /\ current_price >= trade.target_2[1]
               THEN "hit_target_2"
          ELSE IF Truthy(trade.target_1) /\ current_price >= trade.target_1[1]
               THEN "hit_target_1"
          ELSE "pending")
    ELSE (IF Truthy(trade.stop_loss) /\ current_price >= trade.stop_loss[1] THEN "stopped"
          ELSE IF Truthy(trade.target_2) /\ current_price <= trade.target_2[1]
               THEN "hit_target_2"
          ELSE IF Truthy(trade.target_1) /\ current_price <= trade.target_1[1]
               THEN "hit_target_1"
          ELSE "pending")

\* TradeTracker._update_trade_status at time now; returns the trade and the
\* number of Telegram messages sent for it
update_trade_status(service, module, trade, fetched, now, configured, delivered) ==
    LET price == get_current_price(service, fetched)
    IN IF price = None THEN [trade |-> trade, sent |-> 0]
       ELSE
       LET current_price == price[1]
           t1 == IF trade.direction = "LONG"
                 THEN (IF trade.highest_price = None \/ current_price > trade.highest_price[1]
                       THEN [trade EXCEPT !.highest_price = Some(current_price)] ELSE trade)
                 ELSE (IF trade.lowest_price = None \/ current_price < trade.lowest_price[1]
                       THEN [trade EXCEPT !.lowest_price = Some(current_price)] ELSE trade)
           t2 == [t1 EXCEPT !.last_checked = Some(now)]
           hit == HitStatus(t2, current_price)
           status_changed == hit # "pending"
           t3 == IF status_changed
                 THEN calculate_trade_results(
                          [t2 EXCEPT !.status = hit,
                                     !.exit_price = Some(current_price),
                                     !.exit_time = Some(now)])
                 ELSE t2
           n == IF status_changed THEN notify_telegram(module, t3, configured, delivered)
                ELSE [trade |-> t3, sent |-> 0]
           t4 == n.trade
           t5 == IF t4.status = "pending"
                    /\ now - t4.created_at > get_max_age_hours(t4.timeframe)
                 THEN calculate_trade_results(
                          [t4 EXCEPT !.status = "expired",
                                     !.exit_price = Some(current_price),
                                     !.exit_time = Some(now)])
                 ELSE t4
       IN [trade |-> t5, sent |-> n.sent]

\* TradeTracker.save_trade: the new row
new_trade(timeframe, direction, entry_price, stop_loss, target_1, target_2, now) ==
    [timeframe |-> timeframe,
     direction |-> direction,
     created_at |-> now,
     entry_time |-> now,
     entry_price |-> entry_price,
     stop_loss |-> stop_loss,
     target_1 |-> target_1,
     target_2 |-> target_2,
     status |-> "pending",
     highest_price |-> IF direction = "LONG" THEN Some(entry_price) ELSE None,
     lowest_price |-> IF direction = "SHORT" THEN Some(entry_price) ELSE None,
     exit_price |-> None,
     exit_time |-> None,
     profit_loss_percent |-> None,
     risk_reward_realized |-> None,
     duration_minutes |-> None,
     notified_telegram |-> FALSE,
     last_checked |-> Some(now)]

MaxTrades == 2
\* the hours at which something happens
Hours == {0, 100, 200}
MarketPrices == {90, 95, 100, 105, 110}
Timeframes == {"15m", "4h"}

\* the levels a saved recommendation carries: entry 100, stop 5 away, targets 5 and 10 away
TradeInputs ==
    {[direction |-> "LONG", entry_price |-> 100, stop_loss |-> Some(95),
      target_1 |-> Some(105), target_2 |-> Some(110)],
     [direction |-> "SHORT", entry_price |-> 100, stop_loss |-> Some(105),
      target_1 |-> Some(95), target_2 |-> Some(90)]}

\* TradeTracker.save_trade
SaveTrade ==
    /\ Len(trades) < MaxTrades
    /\ \E tf \in Timeframes, i \in TradeInputs :
          trades' = Append(trades, new_trade(tf, i.direction, i.entry_price, i.stop_loss,
                                             i.target_1, i.target_2, clock))
    /\ result_sent' = Append(result_sent, 0)
    /\ last_op' = "save_trade"
    /\ UNCHANGED <<wireVars, callVars, rateVars, market, clock, scoreVars, scanVars, is_enabled, state_file, db, telegram_sent>>

\* the market moves
PriceMove ==
    /\ \E p \in MarketPrices : p # market /\ market' = p
    /\ last_op' = "price_move"
    /\ UNCHANGED <<wireVars, callVars, rateVars, trades, clock, result_sent, scoreVars, scanVars, is_enabled, state_file, db, telegram_sent>>

\* time passes
Tick ==
    /\ \E h \in Hours : h > clock /\ clock' = h
    /\ last_op' = "tick"
    /\ UNCHANGED <<wireVars, callVars, rateVars, trades, market, result_sent, scoreVars, scanVars, is_enabled, state_file, db, telegram_sent>>

\* the query of check_active_trades returning every trade
IsActive_Any(trade) == TRUE

\* the query of check_active_trades: Trade.status == TradeStatus.PENDING
IsActive(trade) == trade.status = "pending"

\* TradeTracker.check_active_trades: every pending trade is updated with the
\* price fetched for it, then the session is committed; when the commit fails
\* the pass is rolled back and the rows keep their old values
CheckActiveTrades ==
    /\ \E fetch_ok \in [1..Len(trades) -> BOOLEAN], configured \in BOOLEAN,
          delivered \in BOOLEAN, commit_ok \in BOOLEAN :
          LET upd(i) == update_trade_status(market_service, telegram_module, trades[i],
                                            IF fetch_ok[i] THEN Some(market) ELSE None,
                                            clock, configured, delivered)
              pending(i) == IsActive(trades[i])
          IN /\ trades' = [i \in 1..Len(trades) |->
                              IF pending(i) /\ commit_ok THEN upd(i).trade ELSE trades[i]]
             /\ result_sent' = [i \in 1..Len(trades) |->
                              IF pending(i) THEN result_sent[i] + upd(i).sent
                              ELSE result_sent[i]]
             /\ \A i \in 1..Len(trades) : result_sent'[i] <= MaxMsgs
             /\ telegram_api' = [configured |-> configured, ok |-> delivered]
    /\ last_op' = "check_active_trades"
    /\ UNCHANGED <<market_service, telegram_module, setups, callVars, rateVars, market, clock, scoreVars, scanVars, is_enabled, state_file, db, telegram_sent>>

(***************************************************************************)
(* trade_tracking/tracker_worker.py: TradeTrackerWorker on the rows of     *)
(* trade_setups (written by database/tracker.py save_setup)                *)
(***************************************************************************)

\* the levels a saved setup carries
SetupInputs ==
    {[direction |-> "LONG", entry_price |-> 100, take_profit |-> Some(110),
      stop_loss |-> Some(95)],
     [direction |-> "SHORT", entry_price |-> 100, take_profit |-> Some(90),
      stop_loss |-> Some(105)]}

\* database/tracker.py save_setup: the new row
new_setup(direction, entry_price, take_profit, stop_loss, current_price, now) ==
    [direction |-> direction,
     entry_price |-> entry_price,
     take_profit |-> take_profit,
     stop_loss |-> stop_loss,
     current_price |-> current_price,
     created_at |-> now,
     status |-> "open",
     closed_at |-> None,
     exit_price |-> None,
     profit_loss_pct |-> None]

\* TradeTrackerWorker.check_trade_outcome at time now; fetched is the close
\* get_current_price returns (None when the fetch fails or gives no candle).
\* A comparison with a level that is None raises and the except branch
\* returns None.  profit_loss_pct is in hundredths of a percent.
check_trade_outcome(trade, now, fetched) ==
    IF now - trade.created_at > 48
    THEN Some([status |-> "expired", exit_price |-> trade.current_price,
               profit_loss_pct |-> 0])
    ELSE IF fetched = None \/ fetched = Some(0) THEN None
    ELSE LET current_price == fetched[1]
             long_pct == RoundDiv((current_price - trade.entry_price) * 10000,
                                  trade.entry_price)
             short_pct == RoundDiv((trade.entry_price - current_price) * 10000,
                                   trade.entry_price)
         IN IF trade.direction = "LONG"
            THEN (IF trade.take_profit = None THEN None
                  ELSE IF current_price >= trade.take_profit[1]
                  THEN Some([status |-> "hit_tp", exit_price |-> Some(current_price),
                             profit_loss_pct |-> long_pct])
                  ELSE IF trade.stop_loss = None THEN None
                  ELSE IF current_price <= trade.stop_loss[1]
                  THEN Some([status |-> "hit_sl", exit_price |-> Some(current_price),
                             profit_loss_pct |-> long_pct])
                  ELSE None)
            ELSE IF trade.direction = "SHORT"
            THEN (IF trade.take_profit = None THEN None
                  ELSE IF current_price <= trade.take_profit[1]
                  THEN Some([status |-> "hit_tp", exit_price |-> Some(current_price),
                             profit_loss_pct |-> short_pct])
                  ELSE IF trade.stop_loss = None THEN None
                  ELSE IF current_price >= trade.stop_loss[1]
                  THEN Some([status |-> "hit_sl", exit_price |-> Some(current_price),
                             profit_loss_pct |-> short_pct])
                  ELSE None)
            ELSE None

\* database/tracker.py save_setup
SaveSetup ==
    /\ Len(setups) < MaxTrades
    /\ \E i \in SetupInputs :
          setups' = Append(setups, new_setup(i.direction, i.entry_price, i.take_profit,
                                             i.stop_loss, Some(market), clock))
    /\ last_op' = "save_setup"
    /\ UNCHANGED <<market_service, telegram_module, telegram_api, trackVars, callVars,
                   rateVars,
                   scoreVars, scanVars, is_enabled, state_file, db, telegram_sent>>

\* the query of check_all_open_trades: TradeSetup.status == 'open'
IsOpen(setup) == setup.status = "open"

\* TradeTrackerWorker.check_all_open_trades on the rows: each open setup with
\* an outcome is updated and committed at once, then the Telegram alert is
\* sent; a commit that fails leaves the session unusable, so from that setup
\* on (fail_from) nothing is stored and nothing is sent
CheckAllOpenTrades ==
    /\ \E fetch_ok \in [1..Len(setups) -> BOOLEAN], fail_from \in 1..(Len(setups) + 1),
          tg \in BOOLEAN :
          LET out(i) == check_trade_outcome(setups[i], clock,
                                            IF fetch_ok[i] THEN Some(market) ELSE None)
              closes(i) == /\ is_enabled
                           /\ IsOpen(setups[i])
                           /\ out(i) # None
                           /\ i < fail_from
          IN /\ setups' = [i \in 1..Len(setups) |->
                              IF closes(i)
                              THEN [setups[i] EXCEPT
                                       !.status = out(i)[1].status,
                                       !.closed_at = Some(clock),
                                       !.exit_price = out(i)[1].exit_price,
                                       !.profit_loss_pct = Some(out(i)[1].profit_loss_pct)]
                              ELSE setups[i]]
             /\ telegram_sent' = telegram_sent
                    + (IF tg THEN Cardinality({i \in 1..Len(setups) : closes(i)}) ELSE 0)
    /\ last_op' = "check_all_open_trades"
    /\ UNCHANGED <<market_service, telegram_module, telegram_api, trackVars, callVars,
                   rateVars,
                   scoreVars, scanVars, is_enabled, state_file, db>>

\* the calls of check_trade_outcome that are followed: a setup saved at hour 0
\* with the market at its entry price, checked at an hour on either side of
\* the 48 hours, with the close get_current_price returns
OutcomeHours == {0, 47, 48, 49, 100}
OutcomeCalls ==
    [trade : {new_setup(i.direction, i.entry_price, i.take_profit, i.stop_loss,
                        Some(i.entry_price), 0) : i \in SetupInputs},
     now : OutcomeHours,
     fetched : {None} \cup {Some(p) : p \in MarketPrices \cup {0}},
     result : {None}]

\* outcome_call holds the arguments of the call and, once it has run, its result
CheckTradeOutcome ==
    /\ outcome_call # None
    /\ outcome_call.result = None
    /\ outcome_call' = [outcome_call EXCEPT
                           !.result = Some(check_trade_outcome(outcome_call.trade,
                                                               outcome_call.now,
                                                               outcome_call.fetched))]
    /\ UNCHANGED <<level_call, scoreVars, scanVars, sysVars, trackVars, wireVars,
                   rateVars>>

(***************************************************************************)
(* market_data/unified_service.py: RateLimitManager                        *)
(*                                                                         *)
(* The lists finnhub_calls and oanda_calls hold time.time() stamps; a      *)
(* stamp t is kept as its age now - t in seconds, which is all the code    *)
(* reads.  An age that has reached the window is stale whatever its value  *)
(* and is kept at the window.  asyncio runs one coroutine at a time and    *)
(* switches only at an await: a pass through the loop of wait_finnhub      *)
(* (can_call_finnhub, then the append or the sleep) is one step.           *)
(***************************************************************************)

\* RateLimitManager.__init__
finnhub_max == 55
finnhub_window == 60
oanda_max == 80
oanda_window == 20

NumCoroutines == 2
\* the seconds that pass between two instants at which calls are made: half
\* a window of the API in use
FinnhubTimeSteps == {30}
OandaTimeSteps == {10}

\* [t for t in calls if now - t < window]
Prune(calls, window) ==
    LET Recent(age) == age < window
    IN SelectSeq(calls, Recent)

\* can_call_finnhub admitting one call too many
can_call_finnhub_Inclusive(calls) ==
    LET pruned == Prune(calls, finnhub_window)
    IN [calls |-> pruned, ok |-> Len(pruned) <= finnhub_max]

\* RateLimitManager.can_call_finnhub: the pruned list and the answer
can_call_finnhub(calls) ==
    LET pruned == Prune(calls, finnhub_window)
    IN [calls |-> pruned, ok |-> Len(pruned) < finnhub_max]

\* RateLimitManager.can_call_oanda
can_call_oanda(calls) ==
    LET pruned == Prune(calls, oanda_window)
    IN [calls |-> pruned, ok |-> Len(pruned) < oanda_max]

\* one pass through the loop of wait_finnhub: the call is let through and
\* stamped, or the coroutine goes to sleep
wait_finnhub(calls) ==
    LET c == can_call_finnhub(calls)
    IN IF c.ok THEN [calls |-> Append(c.calls, 0), through |-> TRUE]
       ELSE [calls |-> c.calls, through |-> FALSE]

\* one pass through the loop of wait_oanda
wait_oanda(calls) ==
    LET c == can_call_oanda(calls)
    IN IF c.ok THEN [calls |-> Append(c.calls, 0), through |-> TRUE]
       ELSE [calls |-> c.calls, through |-> FALSE]

\* the stamps after d seconds
Aged(calls, d, window) == [i \in DOMAIN calls |-> Min(calls[i] + d, window)]

\* coroutine c runs a pass of wait_finnhub: on entry from get_stock_candles
\* (from = "idle") or on waking from asyncio.sleep(0.5) (from = "wait_finnhub")
FinnhubPass(c, from) ==
    /\ rl_api = "finnhub"
    /\ rl_pc[c] = from
    /\ LET r == wait_finnhub(finnhub_calls)
       IN /\ finnhub_calls' = r.calls
          /\ finnhub_admitted' = IF r.through THEN Append(finnhub_admitted, 0)
                                 ELSE finnhub_admitted
          /\ rl_pc' = [rl_pc EXCEPT ![c] = IF r.through THEN "idle" ELSE "wait_finnhub"]
    /\ UNCHANGED <<rl_api, oanda_calls, oanda_admitted, scoreVars, scanVars, sysVars,
                   trackVars, wireVars, callVars>>

\* coroutine c runs a pass of wait_oanda: on entry from get_forex_candles or
\* on waking from asyncio.sleep(0.2)
OandaPass(c, from) ==
    /\ rl_api = "oanda"
    /\ rl_pc[c] = from
    /\ LET r == wait_oanda(oanda_calls)
       IN /\ oanda_calls' = r.calls
          /\ oanda_admitted' = IF r.through THEN Append(oanda_admitted, 0)
                               ELSE oanda_admitted
          /\ rl_pc' = [rl_pc EXCEPT ![c] = IF r.through THEN "idle" ELSE "wait_oanda"]
    /\ UNCHANGED <<rl_api, finnhub_calls, finnhub_admitted, scoreVars, scanVars, sysVars,
                   trackVars, wireVars, callVars>>

EnterWaitFinnhub == \E c \in 1..NumCoroutines : FinnhubPass(c, "idle")
RetryWaitFinnhub == \E c \in 1..NumCoroutines : FinnhubPass(c, "wait_finnhub")
EnterWaitOanda == \E c \in 1..NumCoroutines : OandaPass(c, "idle")
RetryWaitOanda == \E c \in 1..NumCoroutines : OandaPass(c, "wait_oanda")

\* time passes
TimePasses ==
    /\ rl_api # "none"
    /\ \E d \in (IF rl_api = "finnhub" THEN FinnhubTimeSteps ELSE OandaTimeSteps) :
          /\ finnhub_calls' = Aged(finnhub_calls, d, finnhub_window)
          /\ oanda_calls' = Aged(oanda_calls, d, oanda_window)
          /\ finnhub_admitted' =
                 Prune(Aged(finnhub_admitted, d, finnhub_window), finnhub_window)
          /\ oanda_admitted' =
                 Prune(Aged(oanda_admitted, d, oanda_window), oanda_window)
    /\ UNCHANGED <<rl_api, rl_pc, scoreVars, scanVars, sysVars, trackVars, wireVars,
                   callVars>>

(***************************************************************************)
(* Specifications.  Each subsystem is checked on its own; the variables of *)
(* the other subsystems stay at their idle values.                         *)
(***************************************************************************)

ZeroDb == [scan_sessions |-> 0, completed_sessions |-> 0, open_setups |-> 0,
           closed_setups |-> 0, articles |-> 0]

ScoreIdle == score_call = None
ScanIdle == scan_call = None
SysIdle ==
    /\ is_enabled = TRUE
    /\ state_file = "ON"
    /\ db = ZeroDb
    /\ telegram_sent = 0
    /\ last_op = "init"
TrackIdle ==
    /\ trades = <<>>
    /\ market = 100
    /\ clock = 0
    /\ result_sent = <<>>
\* the tracker as TradeTracker.__init__ and the imports build it
WireIdle ==
    /\ market_service = UnifiedMarketDataServiceMethods
    /\ telegram_module = TelegramBotServiceNames
    /\ setups = <<>>
    /\ telegram_api = [configured |-> FALSE, ok |-> FALSE]
CallIdle == level_call = None /\ outcome_call = None
RateIdle ==
    /\ rl_api = "none"
    /\ finnhub_calls = <<>>
    /\ oanda_calls = <<>>
    /\ finnhub_admitted = <<>>
    /\ oanda_admitted = <<>>
    /\ rl_pc = [c \in 1..NumCoroutines |-> "idle"]

\* the scorer
InitScore ==
    /\ score_call \in [indicators : Bundles, result : {None}]
    /\ ScanIdle /\ SysIdle /\ TrackIdle /\ WireIdle /\ CallIdle /\ RateIdle
NextScore == CalculateTotalScore
SpecScore == InitScore /\ [][NextScore]_vars

\* the trade-level calculator
InitLevels ==
    /\ level_call \in [indicators : LevelBundles,
                        direction : {"LONG", "SHORT", "NEUTRAL"}, result : {None}]
    /\ outcome_call = None
    /\ ScoreIdle /\ ScanIdle /\ SysIdle /\ TrackIdle /\ WireIdle /\ RateIdle
NextLevels == CalculateTradeLevels
SpecLevels == InitLevels /\ [][NextLevels]_vars

\* the outcome of one setup
InitOutcome ==
    /\ outcome_call \in OutcomeCalls
    /\ level_call = None
    /\ ScoreIdle /\ ScanIdle /\ SysIdle /\ TrackIdle /\ WireIdle /\ RateIdle
NextOutcome == CheckTradeOutcome
SpecOutcome == InitOutcome /\ [][NextOutcome]_vars

\* the three market scans
InitScan ==
    /\ scan_call \in ScanCalls
    /\ ScoreIdle /\ SysIdle /\ TrackIdle /\ WireIdle /\ CallIdle /\ RateIdle
NextScan ==
    \/ ScanForBestTrades
    \/ TradingScannerScanMarket
    \/ MarketScannerScanMarket
SpecScan == InitScan /\ [][NextScan]_vars

\* the kill switch and the scheduled jobs: the process has just constructed
\* its SystemController over whatever state file an earlier run left
InitSys ==
    /\ \E file \in {"absent", "ON", "OFF"}, read_ok \in BOOLEAN, write_ok \in BOOLEAN :
          LET r == load_state(file, read_ok, write_ok)
          IN is_enabled = r.is_enabled /\ state_file = r.file
    /\ db = ZeroDb
    /\ telegram_sent = 0
    /\ last_op = "init"
    /\ ScoreIdle /\ ScanIdle /\ TrackIdle /\ WireIdle /\ CallIdle /\ RateIdle
NextSys ==
    \/ EnableSystem
    \/ DisableSystem
    \/ ToggleSystem
    \/ Restart
    \/ AutoScanCrypto
    \/ AutoScanCommodities
    \/ AutoScanIndices
    \/ AutoNews
    \/ TrackerWorkerCheck
SpecSys == InitSys /\ [][NextSys]_vars

\* the trade tracker
InitTrack ==
    ScoreIdle /\ ScanIdle /\ SysIdle /\ TrackIdle /\ WireIdle /\ CallIdle /\ RateIdle
NextTrack ==
    \/ SaveTrade
    \/ PriceMove
    \/ Tick
    \/ CheckActiveTrades
SpecTrack == InitTrack /\ [][NextTrack]_vars
\* the monitoring loop of start_monitoring runs check_active_trades every minute
FairSpecTrack == SpecTrack /\ WF_vars(CheckActiveTrades)

\* the trade tracker given a market service that answers get_ohlcv, with the
\* import of send_trade_result_notification failing (telegram_bot/service.py as
\* it is) or resolving to the function of telegram_bot/notifications.py
InitTrackWired ==
    /\ market_service = UnifiedMarketDataServiceMethods \cup {"get_ohlcv"}
    /\ telegram_module \in {TelegramBotServiceNames,
                             TelegramBotServiceNames \cup {"send_trade_result_notification"}}
    /\ setups = <<>>
    /\ telegram_api = [configured |-> FALSE, ok |-> FALSE]
    /\ ScoreIdle /\ ScanIdle /\ SysIdle /\ TrackIdle /\ CallIdle /\ RateIdle
\* one recommendation is followed, a Trade or a TradeSetup
SaveOneTrade == trades = <<>> /\ setups = <<>> /\ SaveTrade
SaveOneSetup == trades = <<>> /\ setups = <<>> /\ SaveSetup
NextTrackWired ==
    \/ SaveOneTrade
    \/ SaveOneSetup
    \/ PriceMove
    \/ Tick
    \/ CheckActiveTrades
    \/ CheckAllOpenTrades
SpecTrackWired == InitTrackWired /\ [][NextTrackWired]_vars

\* the rate limiter of one UnifiedMarketDataService used by several coroutines
InitRate ==
    /\ rl_api \in {"finnhub", "oanda"}
    /\ finnhub_calls = <<>>
    /\ oanda_calls = <<>>
    /\ finnhub_admitted = <<>>
    /\ oanda_admitted = <<>>
    /\ rl_pc = [c \in 1..NumCoroutines |-> "idle"]
    /\ ScoreIdle /\ ScanIdle /\ SysIdle /\ TrackIdle /\ WireIdle /\ CallIdle
NextRate ==
    \/ EnterWaitFinnhub
    \/ RetryWaitFinnhub
    \/ EnterWaitOanda
    \/ RetryWaitOanda
    \/ TimePasses
SpecRate == InitRate /\ [][NextRate]_vars

(***************************************************************************)
(* Properties of the scorer (SpecScore)                                    *)
(***************************************************************************)

Scored == score_call # None /\ score_call.result # None
Result == score_call.result[1]

\* the summed score of the components that carry signal sig, from the returned components
SideSum(components, sig) ==
    (IF components.rsi.signal = sig THEN components.rsi.score ELSE 0)
    + (IF components.macd.signal = sig THEN components.macd.score ELSE 0)
    + (IF components.bollinger.signal = sig THEN components.bollinger.score ELSE 0)
    + (IF components.trend.signal = sig THEN components.trend.score ELSE 0)
    + (IF components.volume.signal = sig THEN components.volume.score ELSE 0)
    + (IF components.support_resistance.signal = sig
       THEN components.support_resistance.score ELSE 0)

SeqToSet(q) == {q[i] : i \in DOMAIN q}

\* the signal that agrees with a direction, and the one that opposes it
AgreeingSignal(direction) ==
    IF direction = "LONG" THEN "bullish"
    ELSE IF direction = "SHORT" THEN "bearish" ELSE "none"
OpposingSignal(direction) ==
    IF direction = "LONG" THEN "bearish"
    ELSE IF direction = "SHORT" THEN "bullish" ELSE "none"

\* C1: the total_score returned by calculate_total_score lies in 0..100
\* (0..1000 tenths) for every indicator bundle.
C1_TotalScoreInRange ==
    Scored => Result.total_score >= 0 /\ Result.total_score <= 1000

\* C2: when the direction is LONG (SHORT), the confluences list holds exactly
\* one entry for each component whose signal is bullish (bearish) and whose
\* score is positive, and num_confluences is their count.
C2_ConfluencesAreAgreeingSignals ==
    (Scored /\ Result.direction \in {"LONG", "SHORT"}) =>
        LET agreeing == {Upper(ComponentNames[i]) : i \in
                           {j \in DOMAIN ComponentNames :
                              /\ Result.components[ComponentNames[j]].signal
                                     = AgreeingSignal(Result.direction)
                              /\ Result.components[ComponentNames[j]].score > 0}}
        IN /\ SeqToSet(Result.confluences) = agreeing
           /\ Len(Result.confluences) = Cardinality(agreeing)
           /\ Result.num_confluences = Cardinality(agreeing)

\* C3 as stated: the direction is LONG whenever the bullish sum exceeds the
\* bearish sum, and SHORT whenever the bearish sum exceeds the bullish sum.
C3_HigherSumWins ==
    Scored =>
        LET bull == SideSum(Result.components, "bullish")
            bear == SideSum(Result.components, "bearish")
        IN /\ (bull > bear => Result.direction = "LONG")
           /\ (bear > bull => Result.direction = "SHORT")

\* C3 amended: the direction is LONG whenever the bullish sum exceeds the
\* bearish sum and is greater than 30, and SHORT whenever the bearish sum
\* exceeds the bullish sum and is greater than 30.
C3_HigherSumAbove30Wins ==
    Scored =>
        LET bull == SideSum(Result.components, "bullish")
            bear == SideSum(Result.components, "bearish")
        IN /\ (bull > bear /\ bull > 3000 => Result.direction = "LONG")
           /\ (bear > bull /\ bear > 3000 => Result.direction = "SHORT")

\* C3 witness: both sides have a positive sum, the bearish one is higher and
\* above 30, and the direction returned is SHORT.
C3_Witness ==
    /\ Scored
    /\ SideSum(Result.components, "bullish") > 0
    /\ SideSum(Result.components, "bearish") > SideSum(Result.components, "bullish")
    /\ SideSum(Result.components, "bearish") > 3000
    /\ Result.direction = "SHORT"

\* the winning side's sum and the sum of both sides
WinSum(result) ==
    IF result.direction = "LONG" THEN SideSum(result.components, "bullish")
    ELSE SideSum(result.components, "bearish")
BothSums(result) ==
    SideSum(result.components, "bullish") + SideSum(result.components, "bearish")

\* confidence (tenths of a percent) is 100 * win / both to within half a tenth
IsRoundedRatio(result) ==
    LET d == result.confidence * BothSums(result) - 1000 * WinSum(result)
    IN 2 * Abs(d) <= BothSums(result)

\* C4 as stated: the confidence is the ratio 100 * winning sum / (bullish sum +
\* bearish sum), lies in 0..100, is strictly greater than 50 whenever the
\* direction is LONG or SHORT, and is 0 exactly when the direction is NEUTRAL.
C4_ConfidenceAbove50 ==
    Scored =>
        /\ Result.confidence >= 0 /\ Result.confidence <= 1000
        /\ (Result.direction \in {"LONG", "SHORT"} =>
               IsRoundedRatio(Result) /\ Result.confidence > 500)
        /\ (Result.confidence = 0 <=> Result.direction = "NEUTRAL")

\* C4 amended: the confidence is that ratio rounded to one decimal, lies in
\* 0..100, is at least 50 whenever the direction is LONG or SHORT, and is 0
\* exactly when the direction is NEUTRAL.
C4_ConfidenceAtLeast50 ==
    Scored =>
        /\ Result.confidence >= 0 /\ Result.confidence <= 1000
        /\ (Result.direction \in {"LONG", "SHORT"} =>
               IsRoundedRatio(Result) /\ Result.confidence >= 500)
        /\ (Result.confidence = 0 <=> Result.direction = "NEUTRAL")

\* C4 witness: a LONG result whose bearish side is not empty, so the ratio is
\* a proper fraction, and a confidence strictly between 50 and 100.
C4_Witness ==
    /\ Scored
    /\ Result.direction = "LONG"
    /\ SideSum(Result.components, "bearish") > 0
    /\ Result.confidence > 500
    /\ Result.confidence < 1000

\* C9: a component appears in warnings only if its signal is the opposite of
\* the returned direction, and a component whose signal agrees with the
\* returned direction never appears in warnings.
C9_WarningsOnlyConflicts ==
    Scored =>
        \A i \in DOMAIN ComponentNames :
            LET comp == Result.components[ComponentNames[i]]
                warned == Upper(ComponentNames[i]) \in SeqToSet(Result.warnings)
            IN /\ (warned => comp.signal = OpposingSignal(Result.direction))
               /\ (comp.signal = AgreeingSignal(Result.direction) => ~warned)

(***************************************************************************)
(* Properties of the scans (SpecScan)                                      *)
(***************************************************************************)

Scanned(fn) == scan_call # None /\ scan_call.fn = fn /\ scan_call.result # None
Returned == scan_call.result[1]

\* a key of a record is present and not None
HasValue(rec, key) == key \in DOMAIN rec /\ rec[key] # None

\* C7: every analysis returned by scan_for_best_trades has direction LONG or
\* SHORT and trade_levels with non-null entry, stop_loss, target_1, target_2,
\* risk_reward_ratio_t1 and risk_reward_ratio_t2.
C7_ReturnedSetupsComplete ==
    Scanned("scan_for_best_trades") =>
        \A i \in DOMAIN Returned :
            /\ Returned[i].direction \in {"LONG", "SHORT"}
            /\ \A key \in {"entry", "stop_loss", "target_1", "target_2",
                           "risk_reward_ratio_t1", "risk_reward_ratio_t2"} :
                   HasValue(Returned[i].trade_levels, key)

NonIncreasing(keys) ==
    \A i \in DOMAIN keys : \A j \in DOMAIN keys : i < j => keys[i] >= keys[j]

\* the feed entries that pass TradingScanner's filter
Qualifies(a, min_confidence) ==
    a # None /\ a[1].valid /\ a[1].confidence # None /\ a[1].confidence[1] >= min_confidence

\* how many returned setups, and how many qualifying feed entries, have confidence c
ReturnedWith(c) ==
    Cardinality({i \in DOMAIN Returned : Returned[i].confidence = Some(c)})
QualifyingWith(c) ==
    Cardinality({i \in DOMAIN scan_call.feed :
                    /\ Qualifies(scan_call.feed[i], scan_call.threshold)
                    /\ scan_call.feed[i][1].confidence = Some(c)})
Confidences ==
    {scan_call.feed[i][1].confidence[1] :
        i \in {j \in DOMAIN scan_call.feed :
                  Qualifies(scan_call.feed[j], scan_call.threshold)}}

BestTradesFilteredAndSorted ==
    Scanned("scan_for_best_trades") =>
        /\ \A i \in DOMAIN Returned : Returned[i].score >= scan_call.threshold
        /\ NonIncreasing([i \in DOMAIN Returned |-> Returned[i].score])

TradingScannerFilteredSortedAndCut ==
    Scanned("TradingScanner.scan_market") =>
        /\ Len(Returned) <= scan_call.max_results
        /\ \A i \in DOMAIN Returned :
              /\ Returned[i].valid
              /\ Returned[i].confidence # None
              /\ Returned[i].confidence[1] >= scan_call.threshold
        /\ NonIncreasing([i \in DOMAIN Returned |-> GetOr0(Returned[i].confidence)])
        \* the returned setups come from the feed, and a qualifying setup with a
        \* higher confidence than a returned one is returned too
        /\ \A i \in DOMAIN Returned :
              ReturnedWith(Returned[i].confidence[1])
                  <= QualifyingWith(Returned[i].confidence[1])
        /\ \A c \in Confidences :
              (\E i \in DOMAIN Returned : Returned[i].confidence[1] < c)
                  => ReturnedWith(c) = QualifyingWith(c)

MarketScannerFilteredAndSorted ==
    Scanned("MarketScannerService.scan_market") =>
        /\ \A i \in DOMAIN Returned :
              /\ Returned[i].valid
              /\ Returned[i].score # None
              /\ Returned[i].score[1] >= scan_call.threshold
        /\ NonIncreasing([i \in DOMAIN Returned |-> GetOr0(Returned[i].score)])

\* C8: every scan returns only results at or above its threshold in order of
\* non-increasing score; TradingScanner.scan_market returns at most max_results
\* valid setups and leaves out no qualifying setup with a higher confidence
\* than one it returned.
C8_ScansFilterAndSort ==
    /\ BestTradesFilteredAndSorted
    /\ TradingScannerFilteredSortedAndCut
    /\ MarketScannerFilteredAndSorted

\* C8 witness: TradingScanner.scan_market was handed more qualifying setups
\* than max_results, the first of them not the best, and returned max_results
\* of them with distinct confidences.
C8_Witness ==
    /\ Scanned("TradingScanner.scan_market")
    /\ Len(Returned) = scan_call.max_results
    /\ Len(Returned) = 2
    /\ Returned[1].confidence # Returned[2].confidence
    /\ Cardinality({i \in DOMAIN scan_call.feed :
                       Qualifies(scan_call.feed[i], scan_call.threshold)}) > 2
    /\ Qualifies(scan_call.feed[1], scan_call.threshold)
    /\ scan_call.feed[1][1].confidence[1] < Returned[1].confidence[1]

(***************************************************************************)
(* Properties of the kill switch and the scheduled jobs (SpecSys)          *)
(***************************************************************************)

JobNames ==
    {"auto_scan_crypto", "auto_scan_commodities", "auto_scan_indices", "auto_news",
     "tracker_worker_check"}

\* C5: a run of the crypto, commodities or indices auto-scan, of the tracker
\* check or of the news job that starts while is_enabled is false creates no
\* scan session, saves no setup or article, closes no trade and sends nothing
\* to Telegram.
C5_DisabledJobsDoNothing ==
    [][(~is_enabled /\ last_op' \in JobNames)
          => (db' = db /\ telegram_sent' = telegram_sent)]_vars

\* C10: after enable(), disable() or toggle() the state file records the value
\* of is_enabled, and a SystemController constructed afterwards loads that
\* value: a restart does not change is_enabled.
C10_StateSurvivesRestart ==
    [][/\ (last_op' \in {"enable", "disable", "toggle"}
              => state_file' = (IF is_enabled' THEN "ON" ELSE "OFF"))
       /\ (last_op' = "restart" => is_enabled' = is_enabled)]_vars

(***************************************************************************)
(* Properties of the trade tracker (SpecTrack)                             *)
(***************************************************************************)

\* the market price has reached the stop-loss or a target of the trade
PriceReachedLevel(trade, price) ==
    IF trade.direction = "LONG"
    THEN \/ (trade.stop_loss # None /\ price <= trade.stop_loss[1])
         \/ (trade.target_1 # None /\ price >= trade.target_1[1])
         \/ (trade.target_2 # None /\ price >= trade.target_2[1])
    ELSE \/ (trade.stop_loss # None /\ price >= trade.stop_loss[1])
         \/ (trade.target_1 # None /\ price <= trade.target_1[1])
         \/ (trade.target_2 # None /\ price <= trade.target_2[1])

\* C6: a run of check_active_trades moves every PENDING trade whose market
\* price has reached its stop-loss or one of its targets to STOPPED,
\* HIT_TARGET_1 or HIT_TARGET_2.
C6_PriceHitClosesTrade ==
    [][last_op' = "check_active_trades" =>
          \A i \in DOMAIN trades :
              (trades[i].status = "pending" /\ PriceReachedLevel(trades[i], market))
                  => trades'[i].status \in {"stopped", "hit_target_1", "hit_target_2"}]_vars

(***************************************************************************)
(* Properties of the rate limiter (SpecRate)                               *)
(***************************************************************************)

\* C11: at most 55 Finnhub calls are let through in any 60-second window and
\* at most 80 OANDA calls in any 20-second window, also while several
\* coroutines are inside wait_finnhub or wait_oanda.  (A window that holds n
\* calls is contained in the window that ends at the last of them, so it is
\* enough to count the calls of the window that ends now.)
C11_RateLimitsHold ==
    /\ Len(finnhub_admitted) <= finnhub_max
    /\ Len(oanda_admitted) <= oanda_max

\* C11 witness: the Finnhub window is full with calls made at two different
\* instants and every coroutine is asleep inside wait_finnhub.
C11_Witness ==
    /\ Len(finnhub_admitted) = finnhub_max
    /\ \E i \in DOMAIN finnhub_admitted : finnhub_admitted[i] = 0
    /\ \E i \in DOMAIN finnhub_admitted : finnhub_admitted[i] > 0
    /\ \A c \in 1..NumCoroutines : rl_pc[c] = "wait_finnhub"

(***************************************************************************)
(* Properties of the two trackers given prices (SpecTrackWired)            *)
(***************************************************************************)

ClosedTradeStatuses == {"stopped", "hit_target_1", "hit_target_2", "expired"}
ClosedSetupStatuses == {"hit_tp", "hit_sl", "expired"}

\* C12: once a Trade is STOPPED, HIT_TARGET_1, HIT_TARGET_2 or EXPIRED, or a
\* TradeSetup is hit_tp, hit_sl or expired, no later step changes its status,
\* exit price, exit time or profit/loss.
C12_ClosingIsFinal ==
    [][/\ \A i \in DOMAIN trades :
              trades[i].status \in ClosedTradeStatuses =>
                  /\ i \in DOMAIN trades'
                  /\ trades'[i].status = trades[i].status
                  /\ trades'[i].exit_price = trades[i].exit_price
                  /\ trades'[i].exit_time = trades[i].exit_time
                  /\ trades'[i].profit_loss_percent = trades[i].profit_loss_percent
       /\ \A j \in DOMAIN setups :
              setups[j].status \in ClosedSetupStatuses =>
                  /\ j \in DOMAIN setups'
                  /\ setups'[j].status = setups[j].status
                  /\ setups'[j].exit_price = setups[j].exit_price
                  /\ setups'[j].closed_at = setups[j].closed_at
                  /\ setups'[j].profit_loss_pct = setups[j].profit_loss_pct]_vars

\* C12 witness: a Trade closed at an earlier hour has just been through a
\* pass of check_active_trades at a price that would close it differently.
C12_Witness ==
    /\ last_op = "check_active_trades"
    /\ \E i \in DOMAIN trades :
          /\ trades[i].status = "stopped"
          /\ trades[i].exit_time # None
          /\ trades[i].exit_time[1] < clock
          /\ HitStatus(trades[i], market) = "hit_target_2"

(***************************************************************************)
(* Properties of the trade-level calculator (SpecLevels)                   *)
(***************************************************************************)

LevelsDone == level_call # None /\ level_call.result # None
Levels == level_call.result[1]

\* C13: for a LONG setup the stop-loss is strictly below the entry and both
\* targets strictly above it with target_1 <= target_2; for a SHORT setup the
\* stop-loss is strictly above the entry and both targets strictly below it
\* with target_1 >= target_2; so the risk is greater than 0.
C13_LevelsOrdered ==
    LevelsDone =>
        /\ (level_call.direction = "LONG" =>
               /\ Levels.stop_loss[1] < Levels.entry[1]
               /\ Levels.target_1[1] > Levels.entry[1]
               /\ Levels.target_2[1] > Levels.entry[1]
               /\ Levels.target_1[1] <= Levels.target_2[1]
               /\ Abs(Levels.entry[1] - Levels.stop_loss[1]) > 0)
        /\ (level_call.direction = "SHORT" =>
               /\ Levels.stop_loss[1] > Levels.entry[1]
               /\ Levels.target_1[1] < Levels.entry[1]
               /\ Levels.target_2[1] < Levels.entry[1]
               /\ Levels.target_1[1] >= Levels.target_2[1]
               /\ Abs(Levels.entry[1] - Levels.stop_loss[1]) > 0)


\* the outcome check_trade_outcome returned, None while the setup stays open
OutcomeDone == outcome_call # None /\ outcome_call.result # None
Outcome == outcome_call.result[1]
\* the price the market has reached lies at or beyond a level of the setup
SetupPriceReached(trade, fetched, level) ==
    /\ fetched # None
    /\ level # None
    /\ IF (trade.direction = "LONG") = (level = trade.take_profit)
       THEN fetched[1] >= level[1]
       ELSE fetched[1] <= level[1]

\* C14: check_trade_outcome reports 'expired' only for a setup older than 48
\* hours whose price reached neither the take-profit nor the stop-loss; a
\* setup whose price reached the take-profit is reported 'hit_tp' and one
\* whose price reached the stop-loss 'hit_sl'.
C14_ExpiredOnlyWithoutHit ==
    OutcomeDone =>
        LET trade == outcome_call.trade
            fetched == outcome_call.fetched
            tp == fetched # Some(0) /\ SetupPriceReached(trade, fetched, trade.take_profit)
            sl == fetched # Some(0) /\ SetupPriceReached(trade, fetched, trade.stop_loss)
        IN /\ (Outcome # None /\ Outcome[1].status = "expired") =>
                  /\ outcome_call.now - trade.created_at > 48
                  /\ ~tp /\ ~sl
           /\ tp => (Outcome # None /\ Outcome[1].status = "hit_tp")
           /\ (sl /\ ~tp) => (Outcome # None /\ Outcome[1].status = "hit_sl")


(***************************************************************************)
(* Properties of the tracker: expiry and notifications                     *)
(***************************************************************************)

\* the trade is older than the maximum age of its timeframe
TooOld(trade, now) == now - trade.created_at > get_max_age_hours(trade.timeframe)

\* C15: a run of check_active_trades moves every PENDING trade that has
\* reached neither its stop-loss nor a target and is older than the maximum
\* age of its timeframe (24, 72, 168 or 720 hours, 72 for any other) to
\* EXPIRED.
C15_OldTradeExpires ==
    [][last_op' = "check_active_trades" =>
          \A i \in DOMAIN trades :
              (/\ trades[i].status = "pending"
               /\ ~PriceReachedLevel(trades[i], market)
               /\ TooOld(trades[i], clock))
                  => trades'[i].status = "expired"]_vars


\* the statuses check_active_trades gives a trade whose price reached a level
HitStatuses == {"stopped", "hit_target_1", "hit_target_2"}

====
